---- MODULE Spec2Model ----
(***************************************************************************)
(* The CIFAR-10 notebook (source.ipynb) as a state machine: the cells run  *)
(* top to bottom, each statement one step.  Library calls (to_categorical, *)
(* Sequential.add, SGD, fit, evaluate) are modelled by what Keras 1.x does *)
(* at the call site named in the comments.                                 *)
(***************************************************************************)
EXTENDS Integers, Sequences, FiniteSets, TLC

VARIABLES
    pc,            \* position in the notebook
    variant,       \* which network `model` holds: "none", "shallow", "deep"
    rng_consumers, \* variants that drew from numpy's global RNG since the last seed()
    X_train, X_test, y_train, y_test, num_classes,
    layers,        \* model.layers, in order of add()
    shapes,        \* output shape of each added layer
    weights,       \* digest of all model parameters
    init_taint,    \* rng_consumers at the time the current model's weights were drawn
    iterations,    \* SGD.iterations
    used_lr,       \* the rate of the last parameter update, <<num, den>>
    epoch,         \* fit's epoch index
    index_array,   \* fit's shuffled index array of the current epoch
    batch_index,   \* batches of the current epoch already trained
    seen,          \* seen[i]: how often example i was in a batch of the current epoch
    batch_log,     \* sizes of the batches of the current epoch, in order
    val_log,       \* validation <<loss, acc>> of the last validated epoch
    scores,        \* result of model.evaluate
    n_train_pass, n_val_pass, n_eval  \* passes completed for the current model

vars == <<pc, variant, rng_consumers, X_train, X_test, y_train, y_test, num_classes,
          layers, shapes, weights, init_taint, iterations, used_lr, epoch, index_array,
          batch_index, seen, batch_log, val_log, scores, n_train_pass, n_val_pass, n_eval>>

----------------------------------------------------------------------------
(* Bounds of the model. *)

\* number of training examples (50,000 in CIFAR-10)
NTrain == 70
\* number of test examples (10,000 in CIFAR-10)
NTest == 70
\* parameter tensors are abstracted to a digest in 0..WMod-1
WMod == 3
\* shuffles tried per epoch: rotations of the index array by 0..MaxShift
MaxShift == 2
\* longest training-label array drawn for the preprocessing-only specification
MaxLabels == 2

(* Program constants. *)
epochs == 25
BatchShallow == 32
BatchDeep == 64
EvalBatch == 32
PixelMax == 255
NumLabels == 10
InputChannels == 3
InputSize == 32

----------------------------------------------------------------------------
(* float32 values >= 0: <<0, 0>> is 0.0, otherwise <<m, e>> is m * 2^e     *)
(* with 2^23 <= m < 2^24 (a 24-bit significand).                           *)

TwoP23 == 2^23
TwoP24 == 2^24

RECURSIVE Normalise(_, _)
Normalise(m, e) ==
    IF m = 0 THEN <<0, 0>>
    ELSE IF m < TwoP23 THEN Normalise(2 * m, e - 1)
    ELSE <<m, e>>

\* numpy astype('float32') of an integer in 0..255 (exact)
AsFloat32(v) == Normalise(v, 0)

\* round-to-nearest-even of q + r/d, 0 <= r < d
RoundEven(q, r, d) ==
    IF 2 * r > d \/ (2 * r = d /\ q % 2 = 1) THEN q + 1 ELSE q

Renorm(m, e) == IF m = TwoP24 THEN <<TwoP23, e + 1>> ELSE <<m, e>>

RECURSIVE DivBits(_, _, _, _)
\* binary long division: quotient bits of r/d appended to q until q has 24 bits
DivBits(q, r, d, k) ==
    IF q >= TwoP23 THEN <<RoundEven(q, r, d), k>>
    ELSE LET r2 == 2 * r
             bit == IF r2 >= d THEN 1 ELSE 0
         IN DivBits(2 * q + bit, r2 - bit * d, d, k + 1)

\* float32 division a / b, b > 0, correctly rounded
F32Div(a, b) ==
    IF a[1] = 0 THEN <<0, 0>>
    ELSE LET res == DivBits(a[1] \div b[1], a[1] % b[1], b[1], 0)
         IN Renorm(res[1], a[2] - b[2] - res[2])

\* the scaling with the divisor 256
NormalizeBad(v) == F32Div(AsFloat32(v), AsFloat32(PixelMax + 1))
\* X.astype('float32') / 255.0 on one pixel
Normalize(v) == F32Div(AsFloat32(v), AsFloat32(PixelMax))

NormalizeAll(X) == [i \in 1..Len(X) |-> Normalize(X[i])]

----------------------------------------------------------------------------
(* np_utils.to_categorical(y): nb_classes = max(y) + 1, row i has a 1 at   *)
(* column y[i] (columns counted from 0; sequences here from 1).            *)

MaxOf(y) == CHOOSE m \in {y[i] : i \in 1..Len(y)} : \A i \in 1..Len(y) : y[i] <= m

\* the row with its 1 one column to the right
OneHotRowBad(label, nb_classes) ==
    [j \in 1..nb_classes |-> IF j = ((label + 1) % nb_classes) + 1 THEN 1 ELSE 0]
OneHotRow(label, nb_classes) ==
    [j \in 1..nb_classes |-> IF j = label + 1 THEN 1 ELSE 0]

to_categorical(y) ==
    LET nb_classes == MaxOf(y) + 1
    IN [i \in 1..Len(y) |-> OneHotRow(y[i], nb_classes)]

\* y.shape[1]
Width(Y) == Len(Y[1])

\* index (from 0) of the first largest entry of a vector
ArgMax(row) ==
    (CHOOSE j \in 1..Len(row) :
        /\ \A k \in 1..Len(row) : row[k] <= row[j]
        /\ \A k \in 1..(j - 1) : row[k] < row[j]) - 1

----------------------------------------------------------------------------
(* cifar10.load_data(): a fixed labelled data set, one pixel per example,  *)
(* every class present in both splits.                                     *)

RawTrainPixels == [i \in 1..NTrain |-> (37 * i) % (PixelMax + 1)]
RawTestPixels == [i \in 1..NTest |-> (91 * i + 5) % (PixelMax + 1)]
RawTrainLabels == [i \in 1..NTrain |-> (3 * i) % NumLabels]
RawTestLabels == [i \in 1..NTest |-> (i - 1) % NumLabels]

----------------------------------------------------------------------------
(* Layers and the shapes Sequential.add derives for them. *)

Convolution2D(n, constrained) ==
    [kind |-> "conv", n |-> n, size |-> 3, border_mode |-> "same",
     activation |-> "relu", maxnorm |-> constrained]
Dropout(p) == [kind |-> "dropout", percent |-> p]
MaxPooling2D == [kind |-> "pool", size |-> 2, stride |-> 2, border_mode |-> "valid"]
Flatten == [kind |-> "flatten"]
Dense(n, act, constrained) ==
    [kind |-> "dense", n |-> n, activation |-> act, maxnorm |-> constrained]

ShallowLayers ==
    << Convolution2D(32, TRUE), Dropout(20), Convolution2D(32, TRUE), MaxPooling2D,
       Flatten, Dense(512, "relu", TRUE), Dropout(50),
       Dense(num_classes, "softmax", FALSE) >>

DeepLayers ==
    << Convolution2D(32, FALSE), Dropout(20), Convolution2D(32, FALSE), MaxPooling2D,
       Convolution2D(64, FALSE), Dropout(20), Convolution2D(64, FALSE), MaxPooling2D,
       Convolution2D(128, FALSE), Dropout(20), Convolution2D(128, FALSE), MaxPooling2D,
       Flatten, Dropout(20), Dense(1024, "relu", TRUE), Dropout(20),
       Dense(512, "relu", TRUE), Dropout(20), Dense(num_classes, "softmax", FALSE) >>

Arch == IF variant = "deep" THEN DeepLayers ELSE ShallowLayers

input_shape == <<InputChannels, InputSize, InputSize>>

\* the output length with border_mode ignored ('valid' always)
conv_output_length_valid(input_length, filter_size, border_mode, stride) ==
    ((input_length - filter_size + 1) + stride - 1) \div stride
\* keras conv_output_length
conv_output_length(input_length, filter_size, border_mode, stride) ==
    LET output_length == IF border_mode = "same" THEN input_length
                         ELSE input_length - filter_size + 1
    IN (output_length + stride - 1) \div stride

\* get_output_shape_for of each layer kind
OutShape(layer, in) ==
    CASE layer.kind = "conv" ->
            << layer.n,
               conv_output_length(in[2], layer.size, layer.border_mode, 1),
               conv_output_length(in[3], layer.size, layer.border_mode, 1) >>
      [] layer.kind = "pool" ->
            << in[1],
               conv_output_length(in[2], layer.size, layer.border_mode, layer.stride),
               conv_output_length(in[3], layer.size, layer.border_mode, layer.stride) >>
      [] layer.kind = "dropout" -> in
      [] layer.kind = "flatten" -> << in[1] * in[2] * in[3] >>
      [] layer.kind = "dense" -> << layer.n >>

\* layers whose construction draws from numpy's global RNG (initial weights,
\* the dropout mask stream's seed)
DrawsRandom(layer) == layer.kind \in {"conv", "dense", "dropout"}
HasWeights(layer) == layer.kind \in {"conv", "dense"}

----------------------------------------------------------------------------
(* Rationals <<num, den>>, den > 0, in lowest terms. *)

RECURSIVE GCD(_, _)
GCD(a, b) == IF b = 0 THEN a ELSE GCD(b, a % b)

Rat(n, d) == LET g == GCD(n, d) IN <<n \div g, d \div g>>

(* The optimizer: SGD(lr=lrate, momentum=0.9, decay=decay, nesterov=False) *)
lrate == Rat(1, 100)
decay == Rat(lrate[1], lrate[2] * epochs)

\* the batches without the final undersized one
make_batches_floor(size, batch_size) ==
    [i \in 1..(size \div batch_size) |->
        << (i - 1) * batch_size,
           IF i * batch_size < size THEN i * batch_size ELSE size >>]
\* keras make_batches: nb_batch = ceil(size / batch_size),
\* batch i (from 0) is [i * batch_size, min(size, (i + 1) * batch_size))
make_batches(size, batch_size) ==
    [i \in 1..((size + batch_size - 1) \div batch_size) |->
        << (i - 1) * batch_size,
           IF i * batch_size < size THEN i * batch_size ELSE size >>]

\* the rate decayed by the epoch index instead of the update count
LearningRatePerEpoch(it) ==
    Rat(lrate[1] * decay[2], lrate[2] * (decay[2] + decay[1] * epoch))
\* SGD.get_updates: lr = self.lr * (1. / (1. + self.decay * self.iterations))
LearningRate(it) ==
    Rat(lrate[1] * decay[2], lrate[2] * (decay[2] + decay[1] * it))

batch_size == IF variant = "deep" THEN BatchDeep ELSE BatchShallow

TrainBatches == make_batches(Len(X_train), batch_size)

\* numpy.random.shuffle(index_array): the orders tried are the rotations
Shuffled(n, r) == [i \in 1..n |-> ((i - 1 + r) % n) + 1]

RECURSIVE SumOver(_, _, _)
\* sum of f[ids[k]] for k in from..Len(ids)
SumOver(f, ids, from) ==
    IF from > Len(ids) THEN 0 ELSE f[ids[from]] + SumOver(f, ids, from + 1)

----------------------------------------------------------------------------
(* The network's forward pass in test mode is the engine's: a               *)
(* deterministic function of the parameters and the example.                *)

Predict(w, x) == (w + x[1] + x[2] + 30) % num_classes
ExampleLoss(w, x, yrow) == IF Predict(w, x) = ArgMax(yrow) THEN 0 ELSE 1 + ((w + x[1]) % 3)
ExampleHit(w, x, yrow) == IF Predict(w, x) = ArgMax(yrow) THEN 1 ELSE 0

\* gradient digest of one batch
BatchGradient(w, ids) ==
    SumOver([i \in 1..Len(X_train) |-> 1 + ExampleLoss(w, X_train[i], y_train[i])], ids, 1)

RECURSIVE BatchSums(_, _, _, _, _)
\* outs[i] += batch_out * len(batch_ids), over the batches from k on
BatchSums(w, X, Y, batches, k) ==
    IF k > Len(batches) THEN <<0, 0>>
    ELSE LET ids == [j \in 1..(batches[k][2] - batches[k][1]) |-> batches[k][1] + j]
             rest == BatchSums(w, X, Y, batches, k + 1)
         IN << SumOver([i \in 1..Len(X) |-> ExampleLoss(w, X[i], Y[i])], ids, 1) + rest[1],
               SumOver([i \in 1..Len(X) |-> ExampleHit(w, X[i], Y[i])], ids, 1) + rest[2] >>

\* keras _test_loop: <<loss, accuracy>>, each as <<num, den>>
test_loop(w, X, Y, bs) ==
    LET sums == BatchSums(w, X, Y, make_batches(Len(X), bs), 1)
    IN << Rat(sums[1], Len(X)), Rat(sums[2], Len(X)) >>

\* the training split passed as validation data
validation_data_train == <<X_train, y_train>>
\* validation_data=(X_test, y_test)
validation_data == <<X_test, y_test>>

----------------------------------------------------------------------------
(* The notebook, statement by statement. *)

NoData == <<>>

Init ==
    /\ pc = "start"
    /\ variant = "none"
    /\ rng_consumers = {"unseeded"}
    /\ X_train = NoData /\ X_test = NoData /\ y_train = NoData /\ y_test = NoData
    /\ num_classes = 0
    /\ layers = <<>> /\ shapes = <<>>
    /\ weights = 0 /\ init_taint = {}
    /\ iterations = 0 /\ used_lr = <<0, 1>>
    /\ epoch = 0 /\ index_array = <<>> /\ batch_index = 0
    /\ seen = <<>> /\ batch_log = <<>>
    /\ val_log = <<>> /\ scores = <<>>
    /\ n_train_pass = 0 /\ n_val_pass = 0 /\ n_eval = 0

\* numpy.random.seed(seed), first cell
SeedFirst ==
    /\ pc = "start"
    /\ pc' = "seeded"
    /\ rng_consumers' = {}
    /\ UNCHANGED <<variant, X_train, X_test, y_train, y_test, num_classes, layers, shapes,
                   weights, init_taint, iterations, used_lr, epoch, index_array,
                   batch_index, seen, batch_log, val_log, scores, n_train_pass,
                   n_val_pass, n_eval>>

\* (X_train, y_train), (X_test, y_test) = cifar10.load_data()
LoadData ==
    /\ pc = "seeded"
    /\ pc' = "loaded"
    /\ X_train' = RawTrainPixels /\ X_test' = RawTestPixels
    /\ y_train' = RawTrainLabels /\ y_test' = RawTestLabels
    /\ UNCHANGED <<variant, rng_consumers, num_classes, layers, shapes,
                   weights, init_taint, iterations, used_lr, epoch, index_array,
                   batch_index, seen, batch_log, val_log, scores, n_train_pass,
                   n_val_pass, n_eval>>

\* X_train = X_train.astype('float32') / 255.0, and the same for X_test
NormalizeInputs ==
    /\ pc = "loaded"
    /\ pc' = "normalized"
    /\ X_train' = NormalizeAll(X_train)
    /\ X_test' = NormalizeAll(X_test)
    /\ UNCHANGED <<variant, rng_consumers, y_train, y_test, num_classes, layers, shapes,
                   weights, init_taint, iterations, used_lr, epoch, index_array,
                   batch_index, seen, batch_log, val_log, scores, n_train_pass,
                   n_val_pass, n_eval>>

\* y_train = to_categorical(y_train); y_test = to_categorical(y_test);
\* num_classes = y_test.shape[1]
EncodeOutputs ==
    /\ pc = "normalized"
    /\ pc' = "preprocessed"
    /\ y_train' = to_categorical(y_train)
    /\ y_test' = to_categorical(y_test)
    /\ num_classes' = Width(to_categorical(y_test))
    /\ UNCHANGED <<variant, rng_consumers, X_train, X_test, layers, shapes,
                   weights, init_taint, iterations, used_lr, epoch, index_array,
                   batch_index, seen, batch_log, val_log, scores, n_train_pass,
                   n_val_pass, n_eval>>

\* model = Sequential(): the shallow model after preprocessing, the deep model
\* after the shallow one was evaluated
NewModel ==
    /\ \/ pc = "preprocessed" /\ variant = "none" /\ variant' = "shallow"
       \/ pc = "evaluated" /\ variant = "shallow" /\ variant' = "deep"
    /\ pc' = "building"
    /\ layers' = <<>> /\ shapes' = <<>>
    /\ weights' = 0 /\ init_taint' = {}
    /\ n_train_pass' = 0 /\ n_val_pass' = 0 /\ n_eval' = 0
    /\ UNCHANGED <<rng_consumers, X_train, X_test, y_train, y_test, num_classes,
                   iterations, used_lr, epoch, index_array, batch_index, seen,
                   batch_log, val_log, scores>>

\* model.add(layer): the layer is built on the previous output shape, and its
\* initial weights (or its dropout stream's seed) are drawn from the global RNG
AddLayer ==
    /\ pc = "building"
    /\ Len(layers) < Len(Arch)
    /\ LET layer == Arch[Len(layers) + 1]
           in == IF layers = <<>> THEN input_shape ELSE shapes[Len(shapes)]
       IN /\ layers' = Append(layers, layer)
          /\ shapes' = Append(shapes, OutShape(layer, in))
          /\ rng_consumers' = IF DrawsRandom(layer) THEN rng_consumers \cup {variant}
                              ELSE rng_consumers
          /\ IF HasWeights(layer)
             THEN /\ \E d \in 0..(WMod - 1) : weights' = (weights + d) % WMod
                  /\ init_taint' = init_taint \cup rng_consumers \cup {variant}
             ELSE UNCHANGED <<weights, init_taint>>
    /\ UNCHANGED <<pc, variant, X_train, X_test, y_train, y_test, num_classes,
                   iterations, used_lr, epoch, index_array, batch_index, seen,
                   batch_log, val_log, scores, n_train_pass, n_val_pass, n_eval>>

\* sgd = SGD(...); model.compile(...)
Compile ==
    /\ pc = "building"
    /\ Len(layers) = Len(Arch)
    /\ pc' = "compiled"
    /\ iterations' = 0
    /\ used_lr' = <<0, 1>>
    /\ UNCHANGED <<variant, rng_consumers, X_train, X_test, y_train, y_test, num_classes,
                   layers, shapes, weights, init_taint, epoch, index_array,
                   batch_index, seen, batch_log, val_log, scores, n_train_pass,
                   n_val_pass, n_eval>>

\* numpy.random.seed(seed) at the top of the deep model's fit cell
SeedBeforeDeepFit ==
    /\ pc = "compiled" /\ variant = "deep"
    /\ pc' = "reseeded"
    /\ rng_consumers' = {}
    /\ UNCHANGED <<variant, X_train, X_test, y_train, y_test, num_classes, layers, shapes,
                   weights, init_taint, iterations, used_lr, epoch, index_array,
                   batch_index, seen, batch_log, val_log, scores, n_train_pass,
                   n_val_pass, n_eval>>

\* model.fit(X_train, y_train, validation_data=..., nb_epoch=epochs, batch_size=...)
FitCall ==
    /\ \/ pc = "compiled" /\ variant = "shallow"
       \/ pc = "reseeded" /\ variant = "deep"
    /\ pc' = "epoch_begin"
    /\ epoch' = 0
    /\ index_array' = <<>> /\ batch_index' = 0
    /\ seen' = <<>> /\ batch_log' = <<>>
    /\ UNCHANGED <<variant, rng_consumers, X_train, X_test, y_train, y_test, num_classes,
                   layers, shapes, weights, init_taint, iterations, used_lr,
                   val_log, scores, n_train_pass, n_val_pass, n_eval>>

\* fit loop, top of an epoch: shuffle the index array, cut it into batches
EpochBegin ==
    /\ pc = "epoch_begin"
    /\ epoch < epochs
    /\ pc' = "training"
    /\ \E r \in 0..MaxShift : index_array' = Shuffled(Len(X_train), r)
    /\ rng_consumers' = rng_consumers \cup {variant}
    /\ batch_index' = 0
    /\ seen' = [i \in 1..Len(X_train) |-> 0]
    /\ batch_log' = <<>>
    /\ UNCHANGED <<variant, X_train, X_test, y_train, y_test, num_classes, layers, shapes,
                   weights, init_taint, iterations, used_lr, epoch, val_log, scores,
                   n_train_pass, n_val_pass, n_eval>>

\* fit loop, one batch: gradient of the batch, one SGD update
TrainBatch ==
    /\ pc = "training"
    /\ batch_index < Len(TrainBatches)
    /\ \E b \in {TrainBatches[batch_index + 1]} :
       \E batch_ids \in {[j \in 1..(b[2] - b[1]) |-> index_array[b[1] + j]]} :
          /\ used_lr' = LearningRate(iterations)
          /\ weights' = (weights + BatchGradient(weights, batch_ids)) % WMod
          /\ seen' = [i \in 1..Len(X_train) |->
                        seen[i] + Cardinality({j \in 1..Len(batch_ids) : batch_ids[j] = i})]
          /\ batch_log' = Append(batch_log, Len(batch_ids))
    /\ iterations' = iterations + 1
    /\ batch_index' = batch_index + 1
    /\ n_train_pass' = IF batch_index + 1 = Len(TrainBatches)
                       THEN n_train_pass + 1 ELSE n_train_pass
    /\ UNCHANGED <<pc, variant, rng_consumers, X_train, X_test, y_train, y_test,
                   num_classes, layers, shapes, init_taint, epoch, index_array,
                   val_log, scores, n_val_pass, n_eval>>

\* a validation pass that also updates the parameters
ValidateAndTrain ==
    /\ pc = "training"
    /\ batch_index = Len(TrainBatches)
    /\ val_log' = test_loop(weights, validation_data[1], validation_data[2], batch_size)
    /\ weights' = (weights + 1) % WMod
    /\ n_val_pass' = n_val_pass + 1
    /\ epoch' = epoch + 1
    /\ pc' = IF epoch + 1 = epochs THEN "fitted" ELSE "epoch_begin"
    /\ UNCHANGED <<variant, rng_consumers, X_train, X_test, y_train, y_test, num_classes,
                   layers, shapes, init_taint, iterations, used_lr, index_array,
                   batch_index, seen, batch_log, scores, n_train_pass, n_eval>>

\* a validation pass that ends fit one epoch early
ValidateStopsEarly ==
    /\ pc = "training"
    /\ batch_index = Len(TrainBatches)
    /\ val_log' = test_loop(weights, validation_data[1], validation_data[2], batch_size)
    /\ n_val_pass' = n_val_pass + 1
    /\ epoch' = epoch + 1
    /\ pc' = IF epoch + 2 >= epochs THEN "fitted" ELSE "epoch_begin"
    /\ UNCHANGED <<variant, rng_consumers, X_train, X_test, y_train, y_test, num_classes,
                   layers, shapes, weights, init_taint, iterations, used_lr, index_array,
                   batch_index, seen, batch_log, scores, n_train_pass, n_eval>>

\* fit loop, after the last batch of an epoch: the validation pass
Validate ==
    /\ pc = "training"
    /\ batch_index = Len(TrainBatches)
    /\ val_log' = test_loop(weights, validation_data[1], validation_data[2], batch_size)
    /\ n_val_pass' = n_val_pass + 1
    /\ epoch' = epoch + 1
    /\ pc' = IF epoch + 1 = epochs THEN "fitted" ELSE "epoch_begin"
    /\ UNCHANGED <<variant, rng_consumers, X_train, X_test, y_train, y_test, num_classes,
                   layers, shapes, weights, init_taint, iterations, used_lr, index_array,
                   batch_index, seen, batch_log, scores, n_train_pass, n_eval>>

\* scores = model.evaluate(X_test, y_test, verbose=0)
Evaluate ==
    /\ pc = "fitted"
    /\ pc' = "evaluated"
    /\ scores' = test_loop(weights, X_test, y_test, EvalBatch)
    /\ n_eval' = n_eval + 1
    /\ UNCHANGED <<variant, rng_consumers, X_train, X_test, y_train, y_test, num_classes,
                   layers, shapes, weights, init_taint, iterations, used_lr, epoch,
                   index_array, batch_index, seen, batch_log, val_log, n_train_pass,
                   n_val_pass>>

Next ==
    \/ SeedFirst
    \/ LoadData
    \/ NormalizeInputs
    \/ EncodeOutputs
    \/ NewModel
    \/ AddLayer
    \/ Compile
    \/ SeedBeforeDeepFit
    \/ FitCall
    \/ EpochBegin
    \/ TrainBatch
    \/ Validate
    \/ Evaluate

Spec == Init /\ [][Next]_vars

----------------------------------------------------------------------------
(* Preprocessing alone, on every small data set the provider could return: *)
(* any pixel value, any training labels, test labels contiguous from 0.    *)

LabelArrays == UNION {[1..n -> 0..(NumLabels - 1)] : n \in 1..MaxLabels}
ContiguousLabels(m) == [i \in 1..(m + 1) |-> i - 1]

InitPre ==
    /\ pc = "loaded"
    /\ variant = "none"
    /\ rng_consumers = {}
    /\ \/ /\ \E v \in 0..PixelMax : \E w \in {0, PixelMax, PixelMax - v} :
                X_train = <<v>> /\ X_test = <<w>>
          /\ y_train = ContiguousLabels(NumLabels - 1)
          /\ y_test = ContiguousLabels(NumLabels - 1)
       \/ /\ X_train = <<0>> /\ X_test = <<PixelMax>>
          /\ y_train \in LabelArrays
          /\ \E m \in 0..(NumLabels - 1) : y_test = ContiguousLabels(m)
    /\ num_classes = 0
    /\ layers = <<>> /\ shapes = <<>>
    /\ weights = 0 /\ init_taint = {}
    /\ iterations = 0 /\ used_lr = <<0, 1>>
    /\ epoch = 0 /\ index_array = <<>> /\ batch_index = 0
    /\ seen = <<>> /\ batch_log = <<>>
    /\ val_log = <<>> /\ scores = <<>>
    /\ n_train_pass = 0 /\ n_val_pass = 0 /\ n_eval = 0

NextPre == NormalizeInputs \/ EncodeOutputs

SpecPre == InitPre /\ [][NextPre]_vars

----------------------------------------------------------------------------
(* Helpers of the properties. *)

RECURSIVE ShiftFor(_, _)
ShiftFor(h, s) == IF h < 2^(12 + s) THEN s ELSE ShiftFor(h, s + 1)

\* float32 product of x and the integer c (0 < c < 256), correctly rounded
F32MulInt(x, c) ==
    LET a == (x[1] \div 4096) * c
        b == (x[1] % 4096) * c
        h == a + (b \div 4096)
        low == b % 4096
    IN IF x[1] = 0 THEN <<0, 0>>
       ELSE IF h < 2^11 THEN Normalise(h * 4096 + low, x[2])
       ELSE LET s == ShiftFor(h, 0)
                q == h * 2^(12 - s) + (low \div 2^s)
                r == low % 2^s
            IN Renorm(RoundEven(q, r, 2^s), x[2] + s)

\* x is the float32 nearest to v / d: 2 * |d * m - v * 2^(-e)| <= d
NearestTo(x, v, d) ==
    IF v = 0 THEN x = <<0, 0>>
    ELSE /\ x[1] >= TwoP23 /\ x[1] < TwoP24 /\ x[2] <= -12
         /\ LET a == (x[1] \div 4096) * d
                b == (x[1] % 4096) * d
                c == v * 2^(-x[2] - 12)
                diff == (a - c) * 4096 + b
            IN 2 * diff <= d /\ -2 * diff <= d

\* 0.0 <= x <= 1.0
InUnitInterval(x) == x = <<0, 0>> \/ x[2] <= -24 \/ x = <<TwoP23, -23>>

UnitVectors(n) == {[j \in 1..n |-> IF j = k THEN 1 ELSE 0] : k \in 1..n}

\* a < b, for two float32 values >= 0
F32Less(a, b) ==
    IF a[1] = 0 THEN b[1] # 0
    ELSE b[1] # 0 /\ (a[2] < b[2] \/ (a[2] = b[2] /\ a[1] < b[1]))

\* x is the float32 v / 255 in [0, 1], x * 255 is v, and the next raw value
\* gives a strictly larger result (so the results of 0..255 are all distinct)
PixelOk(x, v) ==
    /\ NearestTo(x, v, PixelMax)
    /\ InUnitInterval(x)
    /\ F32MulInt(x, PixelMax) = AsFloat32(v)
    /\ v < PixelMax => F32Less(x, Normalize(v + 1))

EncodingOk(Y, y) ==
    /\ Len(Y) = Len(y)
    /\ \A i \in 1..Len(y) :
        /\ ArgMax(Y[i]) = y[i]
        /\ Cardinality({j \in 1..Len(Y[i]) : Y[i][j] = 1}) = 1
        /\ \A j \in 1..Len(Y[i]) : Y[i][j] \in {0, 1}
        /\ MaxOf(y) = NumLabels - 1 => Len(Y[i]) = NumLabels
    /\ \A i, j \in 1..Len(y) : (Y[i] = Y[j]) <=> (y[i] = y[j])
    /\ {y[i] : i \in 1..Len(y)} = 0..(NumLabels - 1)
          => {Y[i] : i \in 1..Len(Y)} = UnitVectors(NumLabels)

NbBatches == (Len(X_train) + batch_size - 1) \div batch_size

EpochTrained ==
    \/ pc = "training" /\ batch_index = Len(TrainBatches)
    \/ pc = "epoch_begin" /\ epoch > 0
    \/ pc = "fitted"

----------------------------------------------------------------------------
(* Properties. *)

\* C1: in every epoch of either variant the batches cover every training example
\* exactly once: no example is used twice, every batch but the last has batch_size
\* examples, the last one holds the remainder, and none is left out.
C1_BatchesCoverOnce ==
    pc \in {"training", "epoch_begin", "fitted"} /\ seen # <<>> =>
        /\ \A i \in 1..Len(X_train) : seen[i] <= 1
        /\ \A k \in 1..Len(batch_log) :
              batch_log[k] = IF k < NbBatches THEN batch_size
                             ELSE Len(X_train) - batch_size * (NbBatches - 1)
        /\ EpochTrained =>
              /\ \A i \in 1..Len(X_train) : seen[i] = 1
              /\ Len(batch_log) = NbBatches
              /\ batch_log[NbBatches] \in 1..batch_size

C1_Witness ==
    /\ pc = "training" /\ batch_index = Len(TrainBatches)
    /\ variant = "deep" /\ epoch = 3
    /\ Len(batch_log) = 2 /\ batch_log[2] < BatchDeep
    /\ index_array[1] # 1

\* C2: a run goes load, preprocess, then epochs times {training pass, validation
\* pass}, then one evaluation: a validation pass never precedes the end of its
\* epoch's training pass, the evaluation follows the last validation pass, and a
\* finished run has done exactly `epochs` epochs.
C2_PipelineOrder ==
    /\ pc \in {"start", "seeded"} => X_train = NoData /\ num_classes = 0
    /\ pc \in {"start", "seeded", "loaded", "normalized"} => variant = "none"
    /\ variant # "none" =>
          /\ num_classes > 0
          /\ \A i \in 1..Len(X_train) : InUnitInterval(X_train[i])
          /\ \A i \in 1..Len(y_train) : Len(y_train[i]) = num_classes
    /\ n_val_pass <= n_train_pass /\ n_train_pass <= n_val_pass + 1
    /\ n_train_pass <= epochs
    /\ pc = "training" /\ batch_index < Len(TrainBatches) => n_val_pass = n_train_pass
    /\ n_eval <= 1
    /\ n_eval = 1 <=> pc = "evaluated"
    /\ n_eval = 1 => n_train_pass = epochs /\ n_val_pass = epochs
    /\ pc = "fitted" => n_train_pass = epochs /\ n_val_pass = epochs

C2_Witness ==
    pc = "evaluated" /\ variant = "deep" /\ n_eval = 1 /\ n_val_pass = epochs

\* C3: a validation pass and the final evaluation leave the model parameters and
\* the layer sequence unchanged; during fit the parameters change only in a
\* training-batch update.
C3_ValidationReadOnly ==
    [][ /\ (n_val_pass' = n_val_pass + 1 \/ n_eval' = n_eval + 1)
            => weights' = weights /\ layers' = layers /\ shapes' = shapes
               /\ iterations' = iterations
        /\ (pc \in {"epoch_begin", "training", "fitted"} /\ weights' # weights)
            => iterations' = iterations + 1 /\ batch_index' = batch_index + 1
      ]_vars

C3_Witness ==
    pc = "evaluated" /\ n_eval = 1 /\ n_val_pass = epochs /\ iterations > 0

\* C4 as stated: every update inside epoch t uses rate_0 / (1 + decay * t).
C4_RatePerEpoch ==
    pc = "training" /\ batch_index >= 1 =>
        used_lr[1] * lrate[2] * (decay[2] + decay[1] * epoch)
            = used_lr[2] * lrate[1] * decay[2]

\* C4 amended: the update number k (from 0, counted over all epochs of the fit)
\* uses rate_0 / (1 + decay * k); batch b (from 0) of epoch t is update
\* t * batches_per_epoch + b, so the rate falls with every batch.
C4_RatePerUpdate ==
    pc = "training" /\ batch_index >= 1 =>
        LET k == epoch * NbBatches + batch_index - 1
        IN used_lr[1] * lrate[2] * (decay[2] + decay[1] * k)
              = used_lr[2] * lrate[1] * decay[2]

C4_Witness ==
    pc = "training" /\ epoch = 24 /\ batch_index = 2 /\ variant = "shallow"
    /\ used_lr = Rat(2500, 100 * (2500 + 24 * NbBatches + 1))
    /\ used_lr # Rat(2500, 100 * (2500 + 24))

\* C5: after preprocessing, the one-hot rows of the training labels and of the
\* test labels all have width num_classes, the number of classes of the test split.
C5_WidthsAgree ==
    pc = "preprocessed" =>
        /\ \A i \in 1..Len(y_test) : Len(y_test[i]) = num_classes
        /\ \A i \in 1..Len(y_train) : Len(y_train[i]) = num_classes
        /\ ShallowLayers[Len(ShallowLayers)].n = num_classes
        /\ DeepLayers[Len(DeepLayers)].n = num_classes

\* C6: whenever a variant has drawn from the global RNG, every draw since the last
\* seed reset is that variant's own, and its initial weights rest on no draw of the
\* other variant.
C6_SeedBeforeEach ==
    /\ \A v \in {"shallow", "deep"} : v \in rng_consumers => rng_consumers = {v}
    /\ init_taint \subseteq {variant}

\* C7: in the deep variant the three Conv-Dropout-Conv-MaxPool blocks end with
\* shapes 32x16x16, 64x8x8 and 128x4x4: a 'same' convolution and a dropout keep the
\* spatial extent, a 2x2 pooling halves it, a block's channels are its kernel count.
C7_DeepShapes ==
    variant = "deep" =>
        /\ Len(shapes) >= 4 => shapes[4] = <<32, 16, 16>>
        /\ Len(shapes) >= 8 => shapes[8] = <<64, 8, 8>>
        /\ Len(shapes) >= 12 => shapes[12] = <<128, 4, 4>>
        /\ \A i \in 1..Len(shapes) : i <= 12 =>
              LET in == IF i = 1 THEN input_shape ELSE shapes[i - 1]
              IN /\ layers[i].kind \in {"conv", "dropout"} =>
                        shapes[i][2] = in[2] /\ shapes[i][3] = in[3]
                 /\ layers[i].kind = "pool" =>
                        /\ 2 * shapes[i][2] = in[2] /\ 2 * shapes[i][3] = in[3]
                        /\ shapes[i][1] = layers[i - 1].n

C7_Witness ==
    variant = "deep" /\ Len(shapes) = Len(DeepLayers) /\ shapes[12] = <<128, 4, 4>>

\* C8: to_categorical followed by arg-max returns the label; each row has exactly
\* one 1; with the ten labels present the rows are the ten unit vectors of length 10.
C8_OneHotRoundTrip ==
    [][ pc = "normalized" /\ pc' = "preprocessed" =>
            EncodingOk(y_train', y_train) /\ EncodingOk(y_test', y_test) ]_vars

C8_Witness ==
    /\ pc = "preprocessed"
    /\ Len(y_test) = NumLabels /\ ArgMax(y_test[NumLabels]) = NumLabels - 1
    /\ Len(y_train) = 2 /\ ArgMax(y_train[1]) = 4 /\ ArgMax(y_train[2]) = 9

\* C9: a raw pixel v in 0..255 becomes the float32 v / 255, in [0.0, 1.0]; the
\* results grow strictly with v, so no two raw values give the same result, and the
\* float32 product with 255 is v again; training and test images get the same
\* transform.
C9_PixelScaling ==
    [][ pc = "loaded" /\ pc' = "normalized" =>
            /\ Len(X_train') = Len(X_train) /\ Len(X_test') = Len(X_test)
            /\ \A i \in 1..Len(X_train) : PixelOk(X_train'[i], X_train[i])
            /\ \A i \in 1..Len(X_test) : PixelOk(X_test'[i], X_test[i])
            /\ \A i \in 1..Len(X_train) : \A j \in 1..Len(X_test) :
                  X_train[i] = X_test[j] <=> X_train'[i] = X_test'[j] ]_vars

C9_Witness ==
    /\ pc = "normalized"
    /\ X_train[1] = <<13421773, -26>>
    /\ X_test[1] = <<TwoP23, -23>>

====
